---- MODULE Spec2Model ----
(***************************************************************************)
(* Registration backend (Express handlers over a spreadsheet row store)    *)
(* and the dashboard's derived counts.                                     *)
(*                                                                         *)
(* A cell is a string, modelled as a sequence of one-character strings so  *)
(* that trim() and toLowerCase() are computed, not assumed.  A row is the  *)
(* ten cells A..J of the sheet "ExecutiveList"; a cell the sheet does not   *)
(* hold reads as the empty string (the handlers' `row[i] || ''`).          *)
(* The row store itself (Google Sheets) is the environment: a read returns *)
(* the rows in sheet order, an update stores the given cells as given.     *)
(***************************************************************************)
EXTENDS Integers, Sequences, FiniteSets, TLC

VARIABLES store, reqs, issued, lastRegWrite, view, admins, ui

vars == <<store, reqs, issued, lastRegWrite, view, admins, ui>>

(***************************************************************************)
(* Bounds                                                                  *)
(***************************************************************************)
MaxRows == 2

MaxRequests == 3

\* zones of a role-stats response
MaxZones == 2

\* members requests of the dashboard awaiting their response
MaxInFlight == 2

(***************************************************************************)
(* Strings                                                                 *)
(***************************************************************************)
EMPTY == <<>>

WhiteSpace == {" ", "\t"}

LowerChar(c) ==
    CASE c = "A" -> "a"
      [] c = "B" -> "b"
      [] c = "C" -> "c"
      [] c = "X" -> "x"
      [] c = "Y" -> "y"
      [] c = "Z" -> "z"
      [] c = "S" -> "s"
      [] c = "L" -> "l"
      [] c = "E" -> "e"
      [] c = "P" -> "p"
      [] OTHER -> c

toLowerCase(s) == [i \in 1..Len(s) |-> LowerChar(s[i])]

RECURSIVE trimStart(_)
trimStart(s) ==
    IF s = <<>> THEN s
    ELSE IF Head(s) \in WhiteSpace THEN trimStart(Tail(s)) ELSE s

RECURSIVE trimEnd(_)
trimEnd(s) ==
    IF s = <<>> THEN s
    ELSE IF s[Len(s)] \in WhiteSpace THEN trimEnd(SubSeq(s, 1, Len(s) - 1)) ELSE s

trim(s) == trimEnd(trimStart(s))

\* String literals of the handlers
SUCCESS == <<"S", "u", "c", "c", "e", "s", "s">>

LEAVE == <<"L", "e", "a", "v", "e">>

SECRETARIAT == <<"S", "e", "c", "r", "e", "t", "a", "r", "i", "a", "t">>

EXECUTIVE == <<"E", "x", "e", "c", "u", "t", "i", "v", "e">>

ALL_ZONES == <<"a", "l", "l">>

ALL_ROLES == <<"A", "l", "l">>

REGISTERED == <<"r", "e", "g", "i", "s", "t", "e", "r", "e", "d">>

NOT_REGISTERED == <<"n", "o", "t", "_", "r", "e", "g", "i", "s", "t", "e", "r", "e", "d">>

(***************************************************************************)
(* Rows                                                                    *)
(***************************************************************************)
Row(z, n, m, p, s, r, e, h, cs, cr) ==
    [zone |-> z, name |-> n, mobile |-> m, participated |-> p, status |-> s,
     role |-> r, executive |-> e, mobileH |-> h, callStatus |-> cs, callRemarks |-> cr]

\* Array.prototype.filter: the elements at the positions in keep (those the
\* callback accepts), in their order
Filter(rows, keep) ==
    LET F[i \in 0..Len(rows)] ==
            IF i = 0 THEN <<>>
            ELSE IF i \in keep THEN Append(F[i - 1], rows[i]) ELSE F[i - 1]
    IN F[Len(rows)]

(***************************************************************************)
(* Read-only routes: the response body as a function of the fetched rows   *)
(***************************************************************************)
\* Number.prototype.toFixed(digits) of (registered / total) * 100, held as an
\* integer count of 10^-digits units (scale = 10^digits), ties rounded up
toFixed(registered, total, scale) == (2 * registered * 100 * scale + total) \div (2 * total)

\* the filter keeping the members on Leave out, and the registered ones in
isOfferedUnlessLeave(row) == trim(row.status) # LEAVE

\* GET /api/data: the filter callback
isOffered(row) == trim(row.status) # SUCCESS /\ trim(row.status) # LEAVE

\* GET /api/data
dataBody(rows) ==
    IF Len(rows) = 0 THEN <<>>
    ELSE LET kept == Filter(rows, {i \in 1..Len(rows) : isOffered(rows[i])})
         IN [i \in 1..Len(kept) |-> [mandalam |-> kept[i].zone, name |-> kept[i].name]]

\* the Leave filter comparing the cell as stored, without trim()
isActiveUntrimmed(row) == row.status # LEAVE

\* the `status !== 'Leave'` filter of stats, members and role-stats
isActive(row) == trim(row.status) # LEAVE

activeRows(rows) == Filter(rows, {i \in 1..Len(rows) : isActive(rows[i])})

isRegistered(row) == trim(row.status) = SUCCESS

\* GET /api/dashboard/stats
statsBody(rows) ==
    LET act == activeRows(rows)
        total == Len(act)
        registered == Len(Filter(act, {i \in 1..Len(act) : isRegistered(act[i])}))
        notRegistered == total - registered
    IN [total |-> total, registered |-> registered, notRegistered |-> notRegistered,
        percentageRegistered |-> IF total > 0 THEN toFixed(registered, total, 100) ELSE 0]

\* position of the entry named zone in an insertion-ordered map, 0 when absent
KeyIndex(map, zone) ==
    IF \E k \in 1..Len(map) : map[k].name = zone
    THEN CHOOSE k \in 1..Len(map) : map[k].name = zone
    ELSE 0

\* the zone counters when `registered` tests the cell as stored, without trim()
zoneMapStepUntrimmed(zoneMap, row) ==
    LET zone == trim(row.zone)
        status == trim(row.status)
    IN IF zone = EMPTY THEN zoneMap
       ELSE IF status = LEAVE THEN zoneMap
       ELSE LET m == IF \E k \in 1..Len(zoneMap) : zoneMap[k].name = zone
                     THEN zoneMap
                     ELSE Append(zoneMap, [name |-> zone, total |-> 0,
                                           registered |-> 0, notRegistered |-> 0])
                k == CHOOSE k \in 1..Len(m) : m[k].name = zone
            IN [m EXCEPT ![k] =
                   [name |-> @.name,
                    total |-> @.total + 1,
                    registered |-> IF row.status = SUCCESS THEN @.registered + 1
                                   ELSE @.registered,
                    notRegistered |-> IF status = SUCCESS THEN @.notRegistered
                                      ELSE @.notRegistered + 1]]

\* the zone counters without `if (!zone) return`: rows without a zone are grouped
\* under the empty name
zoneMapStepKeepEmpty(zoneMap, row) ==
    LET zone == trim(row.zone)
        status == trim(row.status)
    IN IF status = LEAVE THEN zoneMap
       ELSE LET m == IF KeyIndex(zoneMap, zone) = 0
                     THEN Append(zoneMap, [name |-> zone, total |-> 0,
                                           registered |-> 0, notRegistered |-> 0])
                     ELSE zoneMap
                k == KeyIndex(m, zone)
            IN [m EXCEPT ![k] =
                   [name |-> @.name,
                    total |-> @.total + 1,
                    registered |-> IF status = SUCCESS THEN @.registered + 1 ELSE @.registered,
                    notRegistered |-> IF status = SUCCESS THEN @.notRegistered
                                      ELSE @.notRegistered + 1]]

\* GET /api/dashboard/zones: the forEach callback
zoneMapStep(zoneMap, row) ==
    LET zone == trim(row.zone)
        status == trim(row.status)
    IN IF zone = EMPTY THEN zoneMap
       ELSE IF status = LEAVE THEN zoneMap
       ELSE LET m == IF KeyIndex(zoneMap, zone) = 0
                     THEN Append(zoneMap, [name |-> zone, total |-> 0,
                                           registered |-> 0, notRegistered |-> 0])
                     ELSE zoneMap
                k == KeyIndex(m, zone)
            IN [m EXCEPT ![k] =
                   [name |-> @.name,
                    total |-> @.total + 1,
                    registered |-> IF status = SUCCESS THEN @.registered + 1 ELSE @.registered,
                    notRegistered |-> IF status = SUCCESS THEN @.notRegistered
                                      ELSE @.notRegistered + 1]]

\* GET /api/dashboard/zones: Object.values(zoneMap), in insertion order
zonesBody(rows) ==
    LET Z[i \in 0..Len(rows)] == IF i = 0 THEN <<>> ELSE zoneMapStep(Z[i - 1], rows[i])
    IN Z[Len(rows)]

\* GET /api/dashboard/members: the map callback
toMember(row) ==
    LET mobileC == trim(row.mobile)
        mobileH == trim(row.mobileH)
    IN [zone |-> trim(row.zone),
        name |-> trim(row.name),
        mobile |-> IF mobileC # EMPTY THEN mobileC ELSE mobileH,
        participated |-> trim(row.participated),
        status |-> trim(row.status),
        role |-> trim(row.role),
        executive |-> trim(row.executive),
        registered |-> (trim(row.status) = SUCCESS),
        callStatus |-> trim(row.callStatus),
        callRemarks |-> trim(row.callRemarks)]

\* GET /api/dashboard/members; an absent query parameter is the empty string
membersBody(rows, zone, role, status) ==
    LET act == Filter(rows, {i \in 1..Len(rows) : isActive(rows[i])})
        all == [i \in 1..Len(act) |-> toMember(act[i])]
        byZone == IF zone # EMPTY /\ zone # ALL_ZONES
                  THEN Filter(all, {i \in 1..Len(all) :
                                      toLowerCase(all[i].zone) = toLowerCase(zone)})
                  ELSE all
        byRole == IF role # EMPTY /\ role # ALL_ROLES
                  THEN IF role = SECRETARIAT
                       THEN Filter(byZone, {i \in 1..Len(byZone) : byZone[i].role = role})
                       ELSE IF role = EXECUTIVE
                       THEN Filter(byZone, {i \in 1..Len(byZone) : byZone[i].executive = role})
                       ELSE byZone
                  ELSE byZone
    IN IF status = REGISTERED
       THEN Filter(byRole, {i \in 1..Len(byRole) : byRole[i].registered})
       ELSE IF status = NOT_REGISTERED
       THEN Filter(byRole, {i \in 1..Len(byRole) : ~byRole[i].registered})
       ELSE byRole

\* GET /api/dashboard/role-stats: the forEach callback
zoneStatsStep(zoneStats, row) ==
    LET zone == trim(row.zone)
        status == trim(row.status)
        role == trim(row.role)
        executive == trim(row.executive)
    IN IF zone = EMPTY THEN zoneStats
       ELSE LET m == IF KeyIndex(zoneStats, zone) = 0
                     THEN Append(zoneStats, [name |-> zone,
                                             secretariat |-> [total |-> 0, registered |-> 0],
                                             executive |-> [total |-> 0, registered |-> 0]])
                     ELSE zoneStats
                k == KeyIndex(m, zone)
                bump(c, counted) ==
                    IF counted
                    THEN [total |-> c.total + 1,
                          registered |-> IF status = SUCCESS THEN c.registered + 1
                                         ELSE c.registered]
                    ELSE c
            IN [m EXCEPT ![k] =
                   [name |-> @.name,
                    secretariat |-> bump(@.secretariat, role = SECRETARIAT),
                    executive |-> bump(@.executive, executive = EXECUTIVE)]]

\* isComplete without the total > 0 conjunct
roleStatsOfNoGuard(c) ==
    [total |-> c.total,
     registered |-> c.registered,
     percentage |-> IF c.total > 0 THEN toFixed(c.registered, c.total, 10) ELSE 0,
     isComplete |-> (c.registered = c.total)]

\* GET /api/dashboard/role-stats: one role's entry of the response
roleStatsOf(c) ==
    [total |-> c.total,
     registered |-> c.registered,
     percentage |-> IF c.total > 0 THEN toFixed(c.registered, c.total, 10) ELSE 0,
     isComplete |-> (c.total > 0 /\ c.registered = c.total)]

\* GET /api/dashboard/role-stats
roleStatsBody(rows) ==
    LET act == activeRows(rows)
        Z[i \in 0..Len(act)] == IF i = 0 THEN <<>> ELSE zoneStatsStep(Z[i - 1], act[i])
        zs == Z[Len(act)]
    IN [i \in 1..Len(zs) |-> [name |-> zs[i].name,
                              secretariat |-> roleStatsOf(zs[i].secretariat),
                              executive |-> roleStatsOf(zs[i].executive)]]

\* Dashboard: the counts derived from the fetched member list
registeredMembers(members) ==
    Filter(members, {i \in 1..Len(members) : members[i].registered})

notRegisteredMembers(members) ==
    Filter(members, {i \in 1..Len(members) : ~members[i].registered})

filteredCounts(members) ==
    [filteredTotal |-> Len(members),
     filteredRegistered |-> Len(registeredMembers(members)),
     filteredNotRegistered |-> Len(notRegisteredMembers(members))]

(***************************************************************************)
(* Requests                                                                *)
(***************************************************************************)
Tokens == {"valid", "invalid", "none"}

\* the middleware of ./auth: next() for a valid bearer token, 401 otherwise
authenticateToken(token) == token = "valid"

NoArgs == [zone |-> EMPTY, role |-> EMPTY, status |-> EMPTY]

NoView == [route |-> "none", token |-> "none", args |-> NoArgs,
           code |-> 0, read |-> FALSE, fault |-> FALSE, body |-> <<>>]

\* the admin sheet is not consulted, the dashboard is not mounted
NoAdmins == <<>>

NoUi == [view |-> "unmounted"]

\* the GET route reading the sheet before the token is looked at
RespondReadFirst(route, token, args, guarded, ok, body) ==
    IF ~ok
    THEN [route |-> route, token |-> token, args |-> args,
          code |-> 500, read |-> TRUE, fault |-> TRUE, body |-> <<>>]
    ELSE IF guarded /\ ~authenticateToken(token)
    THEN [route |-> route, token |-> token, args |-> args,
          code |-> 401, read |-> TRUE, fault |-> FALSE, body |-> <<>>]
    ELSE [route |-> route, token |-> token, args |-> args,
          code |-> 200, read |-> TRUE, fault |-> FALSE, body |-> body]

\* a protected GET route: 401 without reading, 500 when the read fails, else the body
Respond(route, token, args, guarded, ok, body) ==
    IF guarded /\ ~authenticateToken(token)
    THEN [route |-> route, token |-> token, args |-> args,
          code |-> 401, read |-> FALSE, fault |-> FALSE, body |-> <<>>]
    ELSE IF ~ok
    THEN [route |-> route, token |-> token, args |-> args,
          code |-> 500, read |-> TRUE, fault |-> TRUE, body |-> <<>>]
    ELSE [route |-> route, token |-> token, args |-> args,
          code |-> 200, read |-> TRUE, fault |-> FALSE, body |-> body]

(***************************************************************************)
(* Seeded sheets for the read-only routes                                  *)
(***************************************************************************)
ViewRows ==
    { Row(<<"A">>, <<"X">>, EMPTY, EMPTY, EMPTY, SECRETARIAT, EMPTY, EMPTY, EMPTY, EMPTY),
      Row(<<"A">>, <<"Y">>, <<"9">>, <<"y">>, SUCCESS, SECRETARIAT, EXECUTIVE, EMPTY, EMPTY, EMPTY),
      Row(<<"A">>, <<"Z">>, EMPTY, EMPTY, LEAVE, SECRETARIAT, EMPTY, EMPTY, EMPTY, EMPTY),
      Row(<<"B", " ">>, <<"X">>, EMPTY, EMPTY, <<" ">> \o LEAVE \o <<" ">>, EMPTY, EXECUTIVE,
          EMPTY, EMPTY, EMPTY),
      Row(<<"B">>, <<"Y">>, <<"8">>, <<"n">>, SUCCESS, EMPTY, EXECUTIVE, EMPTY, EMPTY, EMPTY),
      Row(<<"a">>, <<"X">>, EMPTY, EMPTY, EMPTY, EMPTY, EMPTY, EMPTY, <<"c">>, <<"r">>),
      Row(EMPTY, <<"X">>, <<"7">>, <<"y">>, SUCCESS, SECRETARIAT, EMPTY, EMPTY, EMPTY, EMPTY),
      Row(<<"B">>, <<"Z">>, EMPTY, EMPTY, EMPTY, EMPTY, EXECUTIVE, <<"5">>, EMPTY, EMPTY),
      Row(<<"A">>, <<"x">>, <<"6">>, <<"n">>, SUCCESS \o <<" ">>, EMPTY, EMPTY, EMPTY, EMPTY, EMPTY),
      Row(<<"C">>, <<"X">>, EMPTY, EMPTY, LEAVE, EMPTY, EXECUTIVE, EMPTY, EMPTY, EMPTY),
      Row(<<" ">>, <<"Y">>, EMPTY, EMPTY, EMPTY, EMPTY, EXECUTIVE, EMPTY, EMPTY, EMPTY) }

ViewStores == UNION { [1..n -> ViewRows] : n \in 0..MaxRows }

ZoneArgs == {EMPTY, ALL_ZONES, <<"a">>, <<"B">>, <<"C">>}

RoleArgs == {ALL_ROLES, SECRETARIAT, EXECUTIVE}

StatusArgs == {EMPTY, REGISTERED, NOT_REGISTERED}

InitViews ==
    /\ store \in ViewStores
    /\ reqs = <<>>
    /\ issued = 0
    /\ lastRegWrite = <<>>
    /\ view = NoView
    /\ admins = NoAdmins
    /\ ui = NoUi

GetData ==
    /\ view = NoView
    /\ \E ok \in BOOLEAN :
          view' = Respond("data", "none", NoArgs, FALSE, ok, dataBody(store))
    /\ UNCHANGED <<store, reqs, issued, lastRegWrite, admins, ui>>

GetStats ==
    /\ view = NoView
    /\ \E token \in Tokens, ok \in BOOLEAN :
          view' = Respond("stats", token, NoArgs, TRUE, ok, statsBody(store))
    /\ UNCHANGED <<store, reqs, issued, lastRegWrite, admins, ui>>

GetZones ==
    /\ view = NoView
    /\ \E token \in Tokens, ok \in BOOLEAN :
          view' = Respond("zones", token, NoArgs, TRUE, ok, zonesBody(store))
    /\ UNCHANGED <<store, reqs, issued, lastRegWrite, admins, ui>>

GetMembers ==
    /\ view = NoView
    /\ \E token \in Tokens, ok \in BOOLEAN, zone \in ZoneArgs, role \in RoleArgs,
          status \in StatusArgs :
          view' = Respond("members", token,
                          [zone |-> zone, role |-> role, status |-> status], TRUE, ok,
                          membersBody(store, zone, role, status))
    /\ UNCHANGED <<store, reqs, issued, lastRegWrite, admins, ui>>

GetRoleStats ==
    /\ view = NoView
    /\ \E token \in Tokens, ok \in BOOLEAN :
          view' = Respond("role-stats", token, NoArgs, TRUE, ok, roleStatsBody(store))
    /\ UNCHANGED <<store, reqs, issued, lastRegWrite, admins, ui>>

\* one request is answered per sheet: the routes are functions of the sheet alone
NextViews == GetData \/ GetStats \/ GetZones \/ GetMembers \/ GetRoleStats

SpecViews == InitViews /\ [][NextViews]_vars

(***************************************************************************)
(* Write routes: POST /api/register and POST /api/call-status              *)
(* Each handler awaits the lookup read and then the update, so the two     *)
(* store calls of a request are separate steps and requests interleave.    *)
(***************************************************************************)
Clients == {"c1", "c2"}

\* findLastIndex for findIndex: the last matching row
findIndexLast(rows, zone, name) ==
    LET matches(row) == /\ toLowerCase(trim(row.zone)) = toLowerCase(trim(zone))
                        /\ toLowerCase(trim(row.name)) = toLowerCase(trim(name))
    IN IF \E i \in 1..Len(rows) : matches(rows[i])
       THEN CHOOSE i \in 1..Len(rows) :
               matches(rows[i]) /\ \A j \in (i + 1)..Len(rows) : ~matches(rows[j])
       ELSE 0

\* rows.findIndex(...) + 1: the first row whose trimmed, lower-cased zone and name
\* equal the request's, 0 when there is none (findIndex's -1)
findIndex(rows, zone, name) ==
    LET matches(row) == /\ toLowerCase(trim(row.zone)) = toLowerCase(trim(zone))
                        /\ toLowerCase(trim(row.name)) = toLowerCase(trim(name))
    IN IF \E i \in 1..Len(rows) : matches(rows[i])
       THEN CHOOSE i \in 1..Len(rows) :
               matches(rows[i]) /\ \A j \in 1..(i - 1) : ~matches(rows[j])
       ELSE 0

\* the update of C:J, blanking the cells after the status
updateRegisterWide(rows, rowIndex, mobile, participated) ==
    [rows EXCEPT ![rowIndex] =
        [@ EXCEPT !.mobile = mobile, !.participated = participated, !.status = SUCCESS,
                  !.role = EMPTY, !.executive = EMPTY, !.mobileH = EMPTY,
                  !.callStatus = EMPTY, !.callRemarks = EMPTY]]

\* the update of E:J, blanking the status and the cells up to the call status
updateCallStatusFromStatus(rows, rowIndex, callStatus, remarks) ==
    [rows EXCEPT ![rowIndex] =
        [@ EXCEPT !.status = EMPTY, !.role = EMPTY, !.executive = EMPTY, !.mobileH = EMPTY,
                  !.callStatus = callStatus, !.callRemarks = remarks]]

\* the update addressed one sheet row too high (rowIndex + 1 for rowIndex + 2)
updateRegisterRowAbove(rows, rowIndex, mobile, participated) ==
    IF rowIndex <= 1 THEN rows
    ELSE [rows EXCEPT ![rowIndex - 1] =
             [@ EXCEPT !.mobile = mobile, !.participated = participated, !.status = SUCCESS]]

\* the update writing mobile and status, and leaving participated to a second call
updateRegisterSplit(rows, rowIndex, mobile, participated) ==
    [rows EXCEPT ![rowIndex] = [@ EXCEPT !.mobile = mobile, !.status = SUCCESS]]

\* values.update of C<row>:E<row> with [[mobile, participated, "Success"]]
updateRegister(rows, rowIndex, mobile, participated) ==
    [rows EXCEPT ![rowIndex] =
        [@ EXCEPT !.mobile = mobile, !.participated = participated, !.status = SUCCESS]]

\* the update addressed to E:F instead of I:J
updateCallStatusWrongRange(rows, rowIndex, callStatus, remarks) ==
    [rows EXCEPT ![rowIndex] = [@ EXCEPT !.status = callStatus, !.role = remarks]]

\* the update addressed to H:I instead of I:J
updateCallStatusShifted(rows, rowIndex, callStatus, remarks) ==
    [rows EXCEPT ![rowIndex] = [@ EXCEPT !.mobileH = callStatus, !.callStatus = remarks]]

\* the update adding the remarks to those the row already has
updateCallStatusAppend(rows, rowIndex, callStatus, remarks) ==
    [rows EXCEPT ![rowIndex] =
        [@ EXCEPT !.callStatus = callStatus, !.callRemarks = @ \o remarks]]

\* values.update of I<row>:J<row> with [[callStatus, remarks]]
updateCallStatus(rows, rowIndex, callStatus, remarks) ==
    [rows EXCEPT ![rowIndex] =
        [@ EXCEPT !.callStatus = callStatus, !.callRemarks = remarks]]

Idle == [kind |-> "idle", pc |-> "idle"]

NoWrite == <<>>

SeedStores ==
    { <<>>,
      << Row(<<"A">>, <<"X">>, EMPTY, EMPTY, EMPTY, SECRETARIAT, EMPTY, <<"5">>, EMPTY, EMPTY),
         Row(<<" ", "a">>, <<"x", " ">>, EMPTY, EMPTY, EMPTY, EMPTY, EXECUTIVE, EMPTY, EMPTY, EMPTY),
         Row(<<"A">>, <<"Y">>, EMPTY, EMPTY, LEAVE, EMPTY, EXECUTIVE, EMPTY, EMPTY, EMPTY),
         Row(<<"B">>, <<"X">>, <<"9">>, <<"y">>, SUCCESS, SECRETARIAT, EMPTY, EMPTY, <<"c">>,
             <<"r">>) >>,
      << Row(<<"B">>, <<"X">>, <<"9">>, <<"y">>, SUCCESS, SECRETARIAT, EMPTY, EMPTY, EMPTY, EMPTY),
         Row(<<"A">>, <<"X">>, EMPTY, EMPTY, EMPTY, EMPTY, EMPTY, EMPTY, EMPTY, EMPTY) >> }

\* (zone, name) pairs a request may name
Identities ==
    { <<<<"a", " ">>, <<"X">>>>, <<<<"A">>, <<"y">>>>, <<<<"C">>, <<"X">>>> }

\* (mobile, participated) of a registration
RegisterValues == { <<<<"7">>, <<"y">>>>, <<<<"8">>, <<"n">>>>, <<EMPTY, EMPTY>> }

\* (callStatus, remarks) of a call-status update
CallValues == { <<<<"m">>, <<"r">>>>, <<EMPTY, EMPTY>> }

\* the dashboard sends its token; any other client may send none
CallTokens == {"valid", "none"}

Init ==
    /\ store \in SeedStores
    /\ reqs = [c \in Clients |-> Idle]
    /\ issued = 0
    /\ lastRegWrite = [i \in 1..Len(store) |-> NoWrite]
    /\ view = NoView
    /\ admins = NoAdmins
    /\ ui = NoUi

\* a client posts { mandalam, name, mobile, participated }
SubmitRegister(c) ==
    /\ reqs[c].pc = "idle"
    /\ issued < MaxRequests
    /\ \E id \in Identities, v \in RegisterValues :
          reqs' = [reqs EXCEPT ![c] =
                      [kind |-> "register", pc |-> "lookup", token |-> "none",
                       zone |-> id[1], name |-> id[2], first |-> v[1], second |-> v[2],
                       rowIndex |-> 0, code |-> 0, reads |-> 0, writes |-> 0, overlap |-> FALSE,
                       fault |-> FALSE]]
    /\ issued' = issued + 1
    /\ UNCHANGED <<store, lastRegWrite, view, admins, ui>>

\* a client posts { zone, name, callStatus, remarks }, with or without a bearer token
SubmitCallStatus(c) ==
    /\ reqs[c].pc = "idle"
    /\ issued < MaxRequests
    /\ \E id \in Identities, v \in CallValues, token \in CallTokens :
          reqs' = [reqs EXCEPT ![c] =
                      [kind |-> "call-status", pc |-> "lookup", token |-> token,
                       zone |-> id[1], name |-> id[2], first |-> v[1], second |-> v[2],
                       rowIndex |-> 0, code |-> 0, reads |-> 0, writes |-> 0, overlap |-> FALSE,
                       fault |-> FALSE]]
    /\ issued' = issued + 1
    /\ UNCHANGED <<store, lastRegWrite, view, admins, ui>>

\* the handler without the rowIndex === -1 check
LookupUnchecked(r, ok) ==
    LET rowIndex == findIndex(store, r.zone, r.name)
    IN IF ~ok
       THEN [r EXCEPT !.pc = "done", !.code = 500, !.reads = @ + 1, !.fault = TRUE]
       ELSE [r EXCEPT !.pc = "write", !.rowIndex = rowIndex, !.reads = @ + 1]

\* the handler refusing a row that is registered already
LookupRejectRegistered(r, ok) ==
    LET rowIndex == findIndex(store, r.zone, r.name)
    IN IF ~ok
       THEN [r EXCEPT !.pc = "done", !.code = 500, !.reads = @ + 1, !.fault = TRUE]
       ELSE IF Len(store) = 0 \/ rowIndex = 0
       THEN [r EXCEPT !.pc = "done", !.code = 404, !.reads = @ + 1]
       ELSE IF store[rowIndex].status = SUCCESS
       THEN [r EXCEPT !.pc = "done", !.code = 409, !.reads = @ + 1, !.rowIndex = rowIndex]
       ELSE [r EXCEPT !.pc = "write", !.rowIndex = rowIndex, !.reads = @ + 1,
                      !.overlap = \E d \in Clients :
                                     /\ reqs[d].pc = "write"
                                     /\ reqs[d].rowIndex = rowIndex]

\* the handler up to its update call: values.get of A2:B, the empty check, findIndex
Lookup(r, ok) ==
    LET rowIndex == findIndex(store, r.zone, r.name)
    IN IF ~ok
       THEN [r EXCEPT !.pc = "done", !.code = 500, !.reads = @ + 1, !.fault = TRUE]
       ELSE IF Len(store) = 0
       THEN [r EXCEPT !.pc = "done", !.code = 404, !.reads = @ + 1]
       ELSE IF rowIndex = 0
       THEN [r EXCEPT !.pc = "done", !.code = 404, !.reads = @ + 1]
       ELSE [r EXCEPT !.pc = "write", !.rowIndex = rowIndex, !.reads = @ + 1,
                      !.overlap = \E d \in Clients :
                                     /\ reqs[d].pc = "write"
                                     /\ reqs[d].rowIndex = rowIndex]

\* POST /api/register: the lookup read
RegisterLookup(c) ==
    /\ reqs[c].kind = "register"
    /\ reqs[c].pc = "lookup"
    /\ \E ok \in BOOLEAN : reqs' = [reqs EXCEPT ![c] = Lookup(reqs[c], ok)]
    /\ UNCHANGED <<store, issued, lastRegWrite, view, admins, ui>>

\* POST /api/register: the update of C:E and the response
RegisterWrite(c) ==
    /\ reqs[c].kind = "register"
    /\ reqs[c].pc = "write"
    /\ \E ok \in BOOLEAN :
          IF ok
          THEN /\ store' = updateRegister(store, reqs[c].rowIndex, reqs[c].first, reqs[c].second)
               /\ lastRegWrite' = [lastRegWrite EXCEPT ![reqs[c].rowIndex] =
                                      <<reqs[c].first, reqs[c].second, SUCCESS>>]
               /\ reqs' = [reqs EXCEPT ![c] = [@ EXCEPT !.pc = "done", !.code = 200,
                                                        !.writes = @ + 1]]
          ELSE /\ reqs' = [reqs EXCEPT ![c] = [@ EXCEPT !.pc = "done", !.code = 500,
                                                        !.writes = @ + 1, !.fault = TRUE]]
               /\ UNCHANGED <<store, lastRegWrite>>
    /\ UNCHANGED <<issued, view, admins, ui>>

\* POST /api/call-status: the lookup read (the route has no middleware)
CallStatusLookup(c) ==
    /\ reqs[c].kind = "call-status"
    /\ reqs[c].pc = "lookup"
    /\ \E ok \in BOOLEAN : reqs' = [reqs EXCEPT ![c] = Lookup(reqs[c], ok)]
    /\ UNCHANGED <<store, issued, lastRegWrite, view, admins, ui>>

\* POST /api/call-status: the update of I:J and the response
CallStatusWrite(c) ==
    /\ reqs[c].kind = "call-status"
    /\ reqs[c].pc = "write"
    /\ \E ok \in BOOLEAN :
          IF ok
          THEN /\ store' = updateCallStatus(store, reqs[c].rowIndex, reqs[c].first,
                                            reqs[c].second)
               /\ reqs' = [reqs EXCEPT ![c] = [@ EXCEPT !.pc = "done", !.code = 200,
                                                        !.writes = @ + 1]]
          ELSE /\ reqs' = [reqs EXCEPT ![c] = [@ EXCEPT !.pc = "done", !.code = 500,
                                                        !.writes = @ + 1, !.fault = TRUE]]
               /\ UNCHANGED store
    /\ UNCHANGED <<issued, lastRegWrite, view, admins, ui>>

\* the client has its response and may post again
Receive(c) ==
    /\ reqs[c].pc = "done"
    /\ reqs' = [reqs EXCEPT ![c] = Idle]
    /\ UNCHANGED <<store, issued, lastRegWrite, view, admins, ui>>

Next ==
    \E c \in Clients :
       \/ SubmitRegister(c)
       \/ SubmitCallStatus(c)
       \/ RegisterLookup(c)
       \/ RegisterWrite(c)
       \/ CallStatusLookup(c)
       \/ CallStatusWrite(c)
       \/ Receive(c)

Spec == Init /\ [][Next]_vars

(***************************************************************************)
(* POST /api/auth/login                                                    *)
(***************************************************************************)
\* the master credentials of the environment (.env)
ADMIN_USERNAME == <<"r">>

ADMIN_PASSWORD == <<"s">>

\* a row of the sheet "admin": columns A and B
AdminRow(u, p) == [username |-> u, password |-> p]

AdminRows ==
    { AdminRow(<<" ", "a">>, <<"p", " ">>),
      AdminRow(<<"b">>, <<"q">>),
      AdminRow(<<"r">>, <<"s">>),
      AdminRow(EMPTY, EMPTY) }

AdminSheets == UNION { [1..n -> AdminRows] : n \in 0..MaxRows }

Usernames == { <<"r">>, <<"a">>, <<" ", "a">>, <<"b">>, EMPTY }

Passwords == { <<"s">>, <<"p">>, <<"p", " ">>, <<"q">>, EMPTY }

NoToken == <<>>

\* generateToken of ./auth: a signed token carrying the payload
generateToken(username, role) == [username |-> username, role |-> role]

\* rows.find(...): the sheet row whose cells equal the credentials without trim()
isAdminUserUntrimmed(rows, username, password) ==
    \E i \in 1..Len(rows) : rows[i].username = username /\ rows[i].password = password

\* rows.find(...): some sheet row whose trimmed cells equal the credentials
isAdminUser(rows, username, password) ==
    \E i \in 1..Len(rows) :
       trim(rows[i].username) = username /\ trim(rows[i].password) = password

\* the admin-sheet read failing the whole request
loginFailing(rows, username, password, ok) ==
    IF username = ADMIN_USERNAME /\ password = ADMIN_PASSWORD
    THEN [code |-> 200, read |-> FALSE, fault |-> FALSE,
          body |-> [success |-> TRUE, token |-> generateToken(username, "super-admin"),
                    role |-> "super-admin"]]
    ELSE IF ~ok
    THEN [code |-> 500, read |-> TRUE, fault |-> TRUE,
          body |-> [success |-> FALSE, token |-> NoToken, role |-> "none"]]
    ELSE IF isAdminUser(rows, username, password)
    THEN [code |-> 200, read |-> TRUE, fault |-> FALSE,
          body |-> [success |-> TRUE, token |-> generateToken(username, "admin"),
                    role |-> "admin"]]
    ELSE [code |-> 401, read |-> TRUE, fault |-> FALSE,
          body |-> [success |-> FALSE, token |-> NoToken, role |-> "none"]]

\* the handler: the master check, then the admin sheet (a failed read of it is
\* logged and the request goes on to the 401), then "Invalid credentials"
login(rows, username, password, ok) ==
    IF username = ADMIN_USERNAME /\ password = ADMIN_PASSWORD
    THEN [code |-> 200, read |-> FALSE, fault |-> FALSE,
          body |-> [success |-> TRUE, token |-> generateToken(username, "super-admin"),
                    role |-> "super-admin"]]
    ELSE IF ok /\ isAdminUser(rows, username, password)
    THEN [code |-> 200, read |-> TRUE, fault |-> FALSE,
          body |-> [success |-> TRUE, token |-> generateToken(username, "admin"),
                    role |-> "admin"]]
    ELSE [code |-> 401, read |-> TRUE, fault |-> ~ok,
          body |-> [success |-> FALSE, token |-> NoToken, role |-> "none"]]

Login ==
    /\ view = NoView
    /\ \E username \in Usernames, password \in Passwords, ok \in BOOLEAN :
          LET answer == login(admins, username, password, ok)
          IN view' = [route |-> "login", token |-> "none",
                      args |-> [username |-> username, password |-> password],
                      code |-> answer.code, read |-> answer.read, fault |-> answer.fault,
                      body |-> answer.body]
    /\ UNCHANGED <<store, reqs, issued, lastRegWrite, admins, ui>>

InitLogin ==
    /\ store = <<>>
    /\ reqs = <<>>
    /\ issued = 0
    /\ lastRegWrite = <<>>
    /\ view = NoView
    /\ admins \in AdminSheets
    /\ ui = NoUi

NextLogin == Login

SpecLogin == InitLogin /\ [][NextLogin]_vars

(***************************************************************************)
(* All the handlers over one sheet                                         *)
(***************************************************************************)
\* the client whose POST requests are followed here
Posters == {"c1"}

HandlerAdmins == { <<>>, << AdminRow(<<" ", "a">>, <<"p", " ">>) >> }

InitHandlers ==
    /\ store \in SeedStores
    /\ reqs = [c \in Clients |-> Idle]
    /\ issued = 0
    /\ lastRegWrite = [i \in 1..Len(store) |-> NoWrite]
    /\ view = NoView
    /\ admins \in HandlerAdmins
    /\ ui = NoUi

\* the form is closed: its list of names is dropped
Dismiss ==
    /\ view.route = "data"
    /\ view' = NoView
    /\ UNCHANGED <<store, reqs, issued, lastRegWrite, admins, ui>>

\* no POST request has been made
Quiet == issued = 0

\* the form's list may be fetched before and after any registration; the
\* dashboard routes and the login are functions of the sheets alone and are
\* answered on the seeded sheets
NextHandlers ==
    \/ GetData
    \/ Dismiss
    \/ (Quiet /\ GetStats)
    \/ (Quiet /\ GetZones)
    \/ (Quiet /\ GetMembers)
    \/ (Quiet /\ GetRoleStats)
    \/ (Quiet /\ Login)
    \/ \E c \in Posters :
          \/ (view.route \in {"none", "data"} /\ SubmitRegister(c))
          \/ (view.route \in {"none", "data"} /\ SubmitCallStatus(c))
          \/ RegisterLookup(c)
          \/ RegisterWrite(c)
          \/ CallStatusLookup(c)
          \/ CallStatusWrite(c)
          \/ Receive(c)

SpecHandlers == InitHandlers /\ [][NextHandlers]_vars

(***************************************************************************)
(* Dashboard: the role report                                              *)
(***************************************************************************)
\* useState defaults of the component; no members request sent yet, none has
\* failed (lost records that the catch of fetchMembers ran) and no alert shown
MountedUi ==
    [view |-> "dashboard", loading |-> TRUE, selectedZone |-> ALL_ZONES,
     selectedRole |-> ALL_ROLES, roleReportFilter |-> ALL_ROLES, zones |-> <<>>,
     members |-> <<>>, roleStats |-> <<>>, inflight |-> {}, lost |-> FALSE, alerts |-> 0]

\* z => !z.<role>.isComplete && z.<role>.total > 0
isIncomplete(z, role) ==
    IF role = SECRETARIAT
    THEN ~z.secretariat.isComplete /\ z.secretariat.total > 0
    ELSE ~z.executive.isComplete /\ z.executive.total > 0

\* parseFloat(z.<role>.percentage), in tenths
percentageOf(z, role) ==
    IF role = SECRETARIAT THEN z.secretariat.percentage ELSE z.executive.percentage

\* .sort((a, b) => parseFloat(b.<role>.percentage) - parseFloat(a.<role>.percentage)):
\* descending, and stable (elements that compare equal keep their order)
sortByPercentage(zs, role) ==
    LET insert(sorted, z) ==
           LET k == Cardinality({i \in 1..Len(sorted) :
                                   percentageOf(sorted[i], role) >= percentageOf(z, role)})
           IN SubSeq(sorted, 1, k) \o <<z>> \o SubSeq(sorted, k + 1, Len(sorted))
        S[i \in 0..Len(zs)] == IF i = 0 THEN <<>> ELSE insert(S[i - 1], zs[i])
    IN S[Len(zs)]

\* the zones the message lists, in the order it lists them
incompleteZones(roleStats, filter) ==
    IF filter = SECRETARIAT \/ filter = EXECUTIVE
    THEN sortByPercentage(
            Filter(roleStats, {i \in 1..Len(roleStats) : isIncomplete(roleStats[i], filter)}),
            filter)
    ELSE \* Array.from(zoneMap.values()): the Map's insertion order
         Filter(roleStats, {i \in 1..Len(roleStats) : isIncomplete(roleStats[i], SECRETARIAT)})
         \o Filter(roleStats, {i \in 1..Len(roleStats) :
                                 /\ isIncomplete(roleStats[i], EXECUTIVE)
                                 /\ ~isIncomplete(roleStats[i], SECRETARIAT)})

\* the "(registered/total)" part of a line: one entry per role shown
zoneInfo(z, filter) ==
    LET sec == [role |-> SECRETARIAT, registered |-> z.secretariat.registered,
                total |-> z.secretariat.total]
        exe == [role |-> EXECUTIVE, registered |-> z.executive.registered,
                total |-> z.executive.total]
    IN IF filter = SECRETARIAT THEN <<sec>>
       ELSE IF filter = EXECUTIVE THEN <<exe>>
       ELSE (IF isIncomplete(z, SECRETARIAT) THEN <<sec>> ELSE <<>>)
            \o (IF isIncomplete(z, EXECUTIVE) THEN <<exe>> ELSE <<>>)

\* the message as its lines: a header, the numbered zones, a footer; '' is <<>>
generateRoleReportWhatsAppMessage(roleStats, filter) ==
    LET zs == incompleteZones(roleStats, filter)
    IN IF Len(zs) = 0 THEN <<>>
       ELSE <<[line |-> "header", role |-> filter]>>
            \o [i \in 1..Len(zs) |->
                  [line |-> "zone", index |-> i, name |-> zs[i].name,
                   info |-> zoneInfo(zs[i], filter)]]
            \o <<[line |-> "footer"]>>

\* (total, registered) of one role in one zone
RoleCounts ==
    { [total |-> 0, registered |-> 0], [total |-> 2, registered |-> 2],
      [total |-> 2, registered |-> 1], [total |-> 4, registered |-> 1] }

ZoneNames == <<"V", "W", "X", "Y", "Z">>

\* role-stats responses: up to MaxZones zones, each role's entry as the route
\* computes it
RoleStatsInputs ==
    UNION { { [i \in 1..n |-> [name |-> <<ZoneNames[i]>>,
                                secretariat |-> roleStatsOf(f[i][1]),
                                executive |-> roleStatsOf(f[i][2])]] :
              f \in [1..n -> RoleCounts \X RoleCounts] } : n \in 0..MaxZones }

InitReport ==
    /\ store = <<>>
    /\ reqs = <<>>
    /\ issued = 0
    /\ lastRegWrite = <<>>
    /\ view = NoView
    /\ admins = NoAdmins
    /\ \E rs \in RoleStatsInputs :
          ui = [MountedUi EXCEPT !.loading = FALSE, !.view = "roleReport", !.roleStats = rs]

\* the "Filter by Role" select of the role report
SetRoleReportFilter ==
    /\ ui.view = "roleReport"
    /\ \E filter \in RoleArgs :
          /\ filter # ui.roleReportFilter
          /\ ui' = [ui EXCEPT !.roleReportFilter = filter]
    /\ UNCHANGED <<store, reqs, issued, lastRegWrite, view, admins>>

NextReport == SetRoleReportFilter

SpecReport == InitReport /\ [][NextReport]_vars

(***************************************************************************)
(* Dashboard: the filter controls and the member list                      *)
(***************************************************************************)
\* the message as its lines: a header, the numbered names, a footer; '' is <<>>
generateWhatsAppMessageAnyZone(u) ==
    LET names == notRegisteredMembers(u.members)
    IN <<[line |-> "header", zone |-> u.selectedZone, role |-> u.selectedRole]>>
       \o [i \in 1..Len(names) |-> [line |-> "member", index |-> i, name |-> names[i].name]]
       \o <<[line |-> "footer"]>>

generateWhatsAppMessage(u) ==
    IF u.selectedZone = ALL_ZONES THEN <<>>
    ELSE LET names == notRegisteredMembers(u.members)
         IN <<[line |-> "header", zone |-> u.selectedZone, role |-> u.selectedRole]>>
            \o [i \in 1..Len(names) |->
                  [line |-> "member", index |-> i, name |-> names[i].name]]
            \o <<[line |-> "footer"]>>

\* the "Copy WhatsApp Message" button is rendered
copyOffered(u) ==
    /\ ~u.loading
    /\ u.view = "dashboard"
    /\ u.selectedZone # ALL_ZONES
    /\ Len(notRegisteredMembers(u.members)) > 0

\* what the button copies: nothing when the message is ''
copyWhatsAppMessage(u) == generateWhatsAppMessage(u)

\* the zone select changing the zone and leaving the role as it is
onZoneChangeKeepRole(u, value) == [u EXCEPT !.selectedZone = value]

\* onChange of the zone selects (dashboard and call campaign)
onZoneChange(u, value) ==
    IF value = ALL_ZONES
    THEN [u EXCEPT !.selectedZone = value, !.selectedRole = ALL_ROLES]
    ELSE [u EXCEPT !.selectedZone = value]

\* onChange of the role select
onRoleChange(u, value) == [u EXCEPT !.selectedRole = value]

\* onClick of Reset Filters
resetFilters(u) == [u EXCEPT !.selectedZone = ALL_ZONES, !.selectedRole = ALL_ROLES]

\* onClick of a sidebar entry
switchView(u, v) ==
    IF v = "callCampaign"
    THEN [u EXCEPT !.view = v, !.selectedRole = ALL_ROLES]
    ELSE [u EXCEPT !.view = v]

\* the effect on [selectedZone, selectedRole]: a members request for the new pair
fetchMembers(old, new) ==
    IF <<new.selectedZone, new.selectedRole>> # <<old.selectedZone, old.selectedRole>>
    THEN [new EXCEPT !.inflight = @ \cup {[zone |-> new.selectedZone,
                                            role |-> new.selectedRole]}]
    ELSE new

UiViews == {"dashboard", "roleReport", "callCampaign", "whatsappTemplate"}

\* the options of the zone selects
ZoneOptions == {ALL_ZONES} \cup {ui.zones[i].name : i \in 1..Len(ui.zones)}

CanFetch == Cardinality(ui.inflight) < MaxInFlight

\* the component mounts with a token: both effects run
InitUi ==
    /\ store \in SeedStores
    /\ reqs = <<>>
    /\ issued = 0
    /\ lastRegWrite = <<>>
    /\ view = NoView
    /\ admins = NoAdmins
    /\ ui = [MountedUi EXCEPT !.inflight = {[zone |-> ALL_ZONES, role |-> ALL_ROLES]}]

\* fetchData returns: the zones on success, and in either case loading is over
FetchData ==
    /\ ui.loading
    /\ \E ok \in BOOLEAN :
          ui' = [ui EXCEPT !.loading = FALSE,
                           !.zones = IF ok THEN zonesBody(store) ELSE @]
    /\ UNCHANGED <<store, reqs, issued, lastRegWrite, view, admins>>

\* a members request is answered: the list is replaced, or kept on a failure
MembersResponse ==
    /\ \E q \in ui.inflight, ok \in BOOLEAN :
          ui' = [ui EXCEPT !.inflight = @ \ {q},
                           !.members = IF ok
                                       THEN membersBody(store, q.zone, q.role, EMPTY)
                                       ELSE @,
                           !.lost = @ \/ ~ok]
    /\ UNCHANGED <<store, reqs, issued, lastRegWrite, view, admins>>

SelectZone ==
    /\ ~ui.loading
    /\ ui.view \in {"dashboard", "callCampaign"}
    /\ CanFetch
    /\ \E value \in ZoneOptions :
          /\ value # ui.selectedZone
          /\ ui' = fetchMembers(ui, onZoneChange(ui, value))
    /\ UNCHANGED <<store, reqs, issued, lastRegWrite, view, admins>>

\* the role select is disabled while no zone is selected
SelectRole ==
    /\ ~ui.loading
    /\ ui.view = "dashboard"
    /\ ui.selectedZone # ALL_ZONES
    /\ CanFetch
    /\ \E value \in RoleArgs :
          /\ value # ui.selectedRole
          /\ ui' = fetchMembers(ui, onRoleChange(ui, value))
    /\ UNCHANGED <<store, reqs, issued, lastRegWrite, view, admins>>

\* the button is rendered only while a filter is set
ResetFilters ==
    /\ ~ui.loading
    /\ ui.view = "dashboard"
    /\ (ui.selectedZone # ALL_ZONES \/ ui.selectedRole # ALL_ROLES)
    /\ CanFetch
    /\ ui' = fetchMembers(ui, resetFilters(ui))
    /\ UNCHANGED <<store, reqs, issued, lastRegWrite, view, admins>>

SwitchView ==
    /\ ~ui.loading
    /\ CanFetch
    /\ \E v \in UiViews :
          /\ v # ui.view
          /\ ui' = fetchMembers(ui, switchView(ui, v))
    /\ UNCHANGED <<store, reqs, issued, lastRegWrite, view, admins>>

NextUi ==
    \/ FetchData
    \/ MembersResponse
    \/ SelectZone
    \/ SelectRole
    \/ ResetFilters
    \/ SwitchView

SpecUi == InitUi /\ [][NextUi]_vars

(***************************************************************************)
(* Dashboard: the call campaign                                            *)
(***************************************************************************)
\* updateCallStatus posting without touching the list
applyCallStatusNothing(members, member, status, remarks) == members

\* updateCallStatus: the setMembers updater
applyCallStatus(members, member, status, remarks) ==
    [i \in 1..Len(members) |->
        IF members[i].zone = member.zone /\ members[i].name = member.name
        THEN [members[i] EXCEPT !.callStatus = status, !.callRemarks = remarks]
        ELSE members[i]]

\* updateCallStatus: the catch block (console.error and alert)
callStatusFailed(u) == [u EXCEPT !.alerts = @ + 1]

\* the call campaign is open on the full member list of the sheet
InitCampaign ==
    /\ store \in SeedStores
    /\ reqs = [c \in Clients |-> Idle]
    /\ issued = 0
    /\ lastRegWrite = [i \in 1..Len(store) |-> NoWrite]
    /\ view = NoView
    /\ admins = NoAdmins
    /\ ui = [MountedUi EXCEPT !.view = "callCampaign", !.loading = FALSE,
                              !.members = membersBody(store, ALL_ZONES, ALL_ROLES, EMPTY)]

\* a call status is chosen for a listed member: the list is updated, then the
\* POST is sent with the dashboard's token
ChooseCallStatus(c) ==
    /\ reqs[c].pc = "idle"
    /\ issued < MaxRequests
    /\ \E i \in 1..Len(ui.members), v \in CallValues :
          /\ ui' = [ui EXCEPT !.members = applyCallStatus(@, ui.members[i], v[1], v[2])]
          /\ reqs' = [reqs EXCEPT ![c] =
                         [kind |-> "call-status", pc |-> "lookup", token |-> "valid",
                          zone |-> ui.members[i].zone, name |-> ui.members[i].name,
                          first |-> v[1], second |-> v[2], rowIndex |-> 0, code |-> 0,
                          reads |-> 0, writes |-> 0, overlap |-> FALSE, fault |-> FALSE]]
    /\ issued' = issued + 1
    /\ UNCHANGED <<store, lastRegWrite, view, admins>>

\* fetch rejects: the request does not reach the server (code 0: no response)
NetworkError(c) ==
    /\ reqs[c].kind = "call-status"
    /\ reqs[c].pc = "lookup"
    /\ reqs' = [reqs EXCEPT ![c] = [@ EXCEPT !.pc = "done", !.fault = TRUE]]
    /\ UNCHANGED <<store, issued, lastRegWrite, view, admins, ui>>

\* the await of fetch ends: nothing more on an OK response, the catch otherwise
CallStatusSettled(c) ==
    /\ reqs[c].kind = "call-status"
    /\ reqs[c].pc = "done"
    /\ ui' = IF reqs[c].code = 200 THEN ui ELSE callStatusFailed(ui)
    /\ reqs' = [reqs EXCEPT ![c] = Idle]
    /\ UNCHANGED <<store, issued, lastRegWrite, view, admins>>

NextCampaign ==
    \E c \in Clients :
       \/ ChooseCallStatus(c)
       \/ NetworkError(c)
       \/ CallStatusLookup(c)
       \/ CallStatusWrite(c)
       \/ CallStatusSettled(c)

SpecCampaign == InitCampaign /\ [][NextCampaign]_vars

(***************************************************************************)
(* The admin session: AuthProvider, ProtectedRoute and the Dashboard's     *)
(* effects. A render with its effects is the last part of the step that    *)
(* changed the state it depends on.                                        *)
(***************************************************************************)
NoUser == <<>>

Paths == {"/register", "/login", "/admin"}

\* { username, password } pairs typed into the login page
Credentials ==
    { [username |-> <<"r">>, password |-> <<"s">>],
      [username |-> <<"a">>, password |-> <<"p">>],
      [username |-> <<"b">>, password |-> <<"q">>] }

\* the AuthProvider's state and localStorage when the page is opened at path;
\* logins are the login requests in flight, sent the dashboard requests made,
\* redirected whether the page navigated to /login by itself, failed whether
\* the login call settled last threw
OpenedAt(path, storedToken, storedUser) ==
    [view |-> "session", path |-> path, isLoading |-> TRUE, token |-> NoToken,
     user |-> NoUser, storedToken |-> storedToken, storedUser |-> storedUser,
     logins |-> {}, dashboard |-> FALSE, sent |-> {}, redirected |-> FALSE,
     failed |-> FALSE]

\* isAuthenticated: !!token
isAuthenticated(u) == u.token # NoToken

\* the wrapper without its isLoading branch
ProtectedRouteNoLoading(isLoading, authenticated) ==
    IF authenticated THEN "children" ELSE "navigate"

\* ProtectedRoute: what it renders
ProtectedRoute(isLoading, authenticated) ==
    IF isLoading THEN "loading"
    ELSE IF authenticated THEN "children" ELSE "navigate"

\* a dashboard request with its bearer token
Request(route, token) == [route |-> route, token |-> token]

\* the Dashboard's effect on [token, navigate, isLoading]
dataEffect(u) ==
    IF u.isLoading THEN u
    ELSE IF u.token = NoToken
    THEN [u EXCEPT !.path = "/login", !.redirected = TRUE]
    ELSE [u EXCEPT !.sent = @ \cup {Request("stats", u.token), Request("zones", u.token),
                                    Request("role-stats", u.token)}]

\* the Dashboard's effect on [selectedZone, selectedRole, token]
membersEffect(u) ==
    IF u.token # NoToken THEN [u EXCEPT !.sent = @ \cup {Request("members", u.token)}]
    ELSE u

\* the routes rendered for the session: the Dashboard is mounted only under
\* ProtectedRoute's children, and its effects run with the token they depend on;
\* a navigation made while rendering /admin leads to /login, which has no guard
renderRoutes(u) ==
    IF u.path # "/admin" THEN [u EXCEPT !.dashboard = FALSE]
    ELSE LET shown == ProtectedRoute(u.isLoading, isAuthenticated(u))
         IN IF shown = "loading" THEN [u EXCEPT !.dashboard = FALSE]
            ELSE IF shown = "navigate"
            THEN [u EXCEPT !.path = "/login", !.redirected = TRUE, !.dashboard = FALSE]
            ELSE LET after == membersEffect(dataEffect([u EXCEPT !.dashboard = TRUE]))
                 IN IF after.path # "/admin" THEN [after EXCEPT !.dashboard = FALSE]
                    ELSE after

\* the AuthProvider's mount effect
restoreSession(u) ==
    IF u.storedToken # NoToken /\ u.storedUser # NoUser
    THEN [u EXCEPT !.token = u.storedToken, !.user = u.storedUser, !.isLoading = FALSE]
    ELSE [u EXCEPT !.isLoading = FALSE]

\* login once fetch has settled: answer is the response, or <<>> when fetch
\* rejected; a throw leaves the state as it is
loginSettled(u, q, answer) ==
    IF answer # <<>> /\ answer.code = 200 /\ answer.body.success
    THEN LET user == [username |-> q.username, role |-> answer.body.role]
         IN [u EXCEPT !.token = answer.body.token, !.user = user,
                      !.storedToken = answer.body.token, !.storedUser = user,
                      !.failed = FALSE]
    ELSE [u EXCEPT !.failed = TRUE]

\* logout forgetting the session and leaving localStorage as it is
logoutMemoryOnly(u) == [u EXCEPT !.token = NoToken, !.user = NoUser]

\* logout
logout(u) ==
    [u EXCEPT !.token = NoToken, !.user = NoUser,
              !.storedToken = NoToken, !.storedUser = NoUser]

\* the Dashboard's handleLogout
handleLogout(u) == [logout(u) EXCEPT !.path = "/login"]

\* the page is opened on empty browser storage
InitAuth ==
    /\ store = <<>>
    /\ reqs = <<>>
    /\ issued = 0
    /\ lastRegWrite = <<>>
    /\ view = NoView
    /\ admins \in HandlerAdmins
    /\ \E path \in Paths : ui = renderRoutes(OpenedAt(path, NoToken, NoUser))

\* the AuthProvider's mount effect runs after the first render
AuthMount ==
    /\ ui.isLoading
    /\ ui' = renderRoutes(restoreSession(ui))
    /\ UNCHANGED <<store, reqs, issued, lastRegWrite, view, admins>>

\* the login page calls login(username, password)
CallLogin ==
    /\ ~ui.isLoading
    /\ ui.path = "/login"
    /\ Cardinality(ui.logins) < MaxInFlight
    /\ \E q \in Credentials : ui' = [ui EXCEPT !.logins = @ \cup {q}]
    /\ UNCHANGED <<store, reqs, issued, lastRegWrite, view, admins>>

\* a login request is answered by the server, or fetch rejects
LoginSettled ==
    /\ \E q \in ui.logins, ok \in BOOLEAN, reached \in BOOLEAN :
          LET answer == IF reached THEN login(admins, q.username, q.password, ok) ELSE <<>>
          IN ui' = renderRoutes(loginSettled([ui EXCEPT !.logins = @ \ {q}], q, answer))
    /\ UNCHANGED <<store, reqs, issued, lastRegWrite, view, admins>>

\* a consumer of the context calls logout
Logout ==
    /\ ~ui.isLoading
    /\ ui' = renderRoutes(logout(ui))
    /\ UNCHANGED <<store, reqs, issued, lastRegWrite, view, admins>>

\* the Logout button of the Dashboard
HandleLogout ==
    /\ ui.dashboard
    /\ ui' = renderRoutes(handleLogout(ui))
    /\ UNCHANGED <<store, reqs, issued, lastRegWrite, view, admins>>

\* a navigation inside the application
Go ==
    /\ ~ui.isLoading
    /\ \E path \in Paths :
          /\ path # ui.path
          /\ ui' = renderRoutes([ui EXCEPT !.path = path, !.redirected = FALSE])
    /\ UNCHANGED <<store, reqs, issued, lastRegWrite, view, admins>>

\* the page is loaded again: the state is new, localStorage is kept
Reload ==
    /\ \E path \in Paths :
          ui' = renderRoutes(OpenedAt(path, ui.storedToken, ui.storedUser))
    /\ UNCHANGED <<store, reqs, issued, lastRegWrite, view, admins>>

NextAuth ==
    \/ AuthMount
    \/ CallLogin
    \/ LoginSettled
    \/ Logout
    \/ HandleLogout
    \/ Go
    \/ Reload

SpecAuth == InitAuth /\ [][NextAuth]_vars

(***************************************************************************)
(* Claims about the write routes (Spec)                                    *)
(***************************************************************************)
SameIdentity(row, zone, name) ==
    /\ toLowerCase(trim(row.zone)) = toLowerCase(trim(zone))
    /\ toLowerCase(trim(row.name)) = toLowerCase(trim(name))

HasMatch(zone, name) == \E i \in 1..Len(store) : SameIdentity(store[i], zone, name)

\* client c's lookup read returns in this step
LookupStep(c) == reqs[c].pc = "lookup" /\ reqs'[c].pc # "lookup"

\* client c's update call returns in this step
WriteStep(c) == reqs[c].pc = "write" /\ reqs'[c].pc = "done"

Triple(row) == <<row.mobile, row.participated, row.status>>

\* C1: a register request naming an identity the sheet holds is not answered
\* NotFound, and its update changes one row only: the first row of that identity
\* gets status "Success" and the submitted mobile and participated; every other
\* row stays as it was.
C1_RegisterOneRow ==
    [][\A c \in Clients :
          reqs[c].kind = "register" =>
             /\ (LookupStep(c) /\ HasMatch(reqs[c].zone, reqs[c].name)) =>
                   (reqs'[c].pc = "write" \/ reqs'[c].code = 500)
             /\ (WriteStep(c) /\ reqs'[c].code = 200) =>
                   \E i \in 1..Len(store) :
                      /\ SameIdentity(store[i], reqs[c].zone, reqs[c].name)
                      /\ \A j \in 1..(i - 1) : ~SameIdentity(store[j], reqs[c].zone, reqs[c].name)
                      /\ Len(store') = Len(store)
                      /\ Triple(store'[i]) = <<reqs[c].first, reqs[c].second, SUCCESS>>
                      /\ \A j \in 1..Len(store) : j # i => store'[j] = store[j]]_vars

\* a registration went through on a sheet that holds a second, untouched row of
\* the same identity
C1_Witness ==
    \E c \in Clients :
       /\ reqs[c].kind = "register"
       /\ reqs[c].pc = "done"
       /\ reqs[c].code = 200
       /\ Triple(store[reqs[c].rowIndex]) = <<reqs[c].first, reqs[c].second, SUCCESS>>
       /\ reqs[c].first # EMPTY
       /\ \E j \in 1..Len(store) :
             /\ j # reqs[c].rowIndex
             /\ SameIdentity(store[j], reqs[c].zone, reqs[c].name)
             /\ store[j].status = EMPTY

\* C2: a register or call-status request whose (zone, name) matches no row is
\* answered 404 once its lookup read returns (500 if the read itself failed),
\* issues no update, and leaves the sheet as it was.
C2_NotFoundNoWrite ==
    [][\A c \in Clients :
          (LookupStep(c) /\ ~HasMatch(reqs[c].zone, reqs[c].name)) =>
             /\ reqs'[c].pc = "done"
             /\ reqs'[c].code \in {404, 500}
             /\ reqs'[c].writes = 0
             /\ store' = store]_vars

\* both routes answered 404 on a sheet that has rows
C2_Witness ==
    /\ Len(store) > 0
    /\ \E c, d \in Clients :
          /\ reqs[c].kind = "register" /\ reqs[c].code = 404 /\ reqs[c].writes = 0
          /\ reqs[d].kind = "call-status" /\ reqs[d].code = 404 /\ reqs[d].writes = 0

DashboardRoutes == {"stats", "zones", "members", "role-stats"}

\* C3: a request to a dashboard route or to /api/call-status without a valid
\* bearer token is answered 401 and makes no store call.
C3_AuthRequired ==
    /\ (view.route \in DashboardRoutes /\ ~authenticateToken(view.token)) =>
          (view.code = 401 /\ ~view.read)
    /\ \A c \in Clients :
          (reqs[c].kind = "call-status" /\ ~authenticateToken(reqs[c].token)) =>
             /\ reqs[c].reads = 0
             /\ reqs[c].writes = 0
             /\ reqs[c].pc = "done" => reqs[c].code = 401

\* C5: a row with status "Success" keeps it in every step, and a call-status
\* update changes no row's status.
C5_SuccessOneWay ==
    [][/\ Len(store') = Len(store)
       /\ \A i \in 1..Len(store) :
             store[i].status = SUCCESS => store'[i].status = SUCCESS
       /\ \A c \in Clients :
             (reqs[c].kind = "call-status" /\ WriteStep(c)) =>
                \A i \in 1..Len(store) : store'[i].status = store[i].status]_vars

\* a row this system registered was registered again and then had its call status set
C5_Witness ==
    \E c, d \in Clients :
       /\ reqs[c].kind = "call-status" /\ reqs[c].pc = "done" /\ reqs[c].code = 200
       /\ reqs[d].kind = "register" /\ reqs[d].pc = "done" /\ reqs[d].code = 200
       /\ reqs[d].rowIndex = reqs[c].rowIndex
       /\ lastRegWrite[reqs[c].rowIndex] # NoWrite
       /\ store[reqs[c].rowIndex].status = SUCCESS
       /\ store[reqs[c].rowIndex].callStatus = reqs[c].first

\* C6: no step changes the status of a row that is on Leave.
C6_LeaveTerminal ==
    [][\A i \in 1..Len(store) :
          trim(store[i].status) = LEAVE => store'[i].status = store[i].status]_vars

\* C7: every row with status "Success" has a mobile and a participated value.
C7_SuccessPopulated ==
    \A i \in 1..Len(store) :
       store[i].status = SUCCESS =>
          (store[i].mobile # EMPTY /\ store[i].participated # EMPTY)

\* C8: after register requests race on one row, the row holds the whole
\* (mobile, participated, "Success") triple of the update applied last, and each
\* request that found the row is answered success (500 only if its own update
\* failed).
C8_LastWriteWins ==
    /\ \A i \in 1..Len(store) :
          lastRegWrite[i] # NoWrite => Triple(store[i]) = lastRegWrite[i]
    /\ \A c \in Clients :
          (reqs[c].kind = "register" /\ reqs[c].pc = "done" /\ reqs[c].rowIndex # 0) =>
             reqs[c].code \in {200, 500}

\* two registrations with different values both looked the row up before either
\* wrote, both succeeded, and the row holds one of the two triples
C8_Witness ==
    \E c, d \in Clients :
       /\ c # d
       /\ reqs[c].kind = "register" /\ reqs[c].pc = "done" /\ reqs[c].code = 200
       /\ reqs[d].kind = "register" /\ reqs[d].pc = "done" /\ reqs[d].code = 200
       /\ reqs[c].rowIndex = reqs[d].rowIndex
       /\ reqs[d].overlap
       /\ reqs[c].first # reqs[d].first
       /\ reqs[c].second # reqs[d].second
       /\ Triple(store[reqs[c].rowIndex]) = <<reqs[c].first, reqs[c].second, SUCCESS>>

CallPair(row) == <<row.callStatus, row.callRemarks>>

\* C11: a call-status request naming an identity the sheet holds is not answered
\* NotFound, whatever the status cell of the row (empty, "Success", "Leave"); its
\* update changes the callStatus and callRemarks cells of the first row of that
\* identity and nothing else: the row's other cells and every other row stay.
C11_CallStatusFrame ==
    [][\A c \in Clients :
          reqs[c].kind = "call-status" =>
             /\ (LookupStep(c) /\ HasMatch(reqs[c].zone, reqs[c].name)) =>
                   (reqs'[c].pc = "write" \/ reqs'[c].code = 500)
             /\ (WriteStep(c) /\ reqs'[c].code = 200) =>
                   \E i \in 1..Len(store) :
                      /\ SameIdentity(store[i], reqs[c].zone, reqs[c].name)
                      /\ \A j \in 1..(i - 1) : ~SameIdentity(store[j], reqs[c].zone, reqs[c].name)
                      /\ store' = [store EXCEPT ![i] =
                                      [@ EXCEPT !.callStatus = reqs[c].first,
                                                !.callRemarks = reqs[c].second]]]_vars

\* a call status and remarks were set on a row that is on Leave
C11_Witness ==
    \E c \in Clients :
       /\ reqs[c].kind = "call-status"
       /\ reqs[c].pc = "done"
       /\ reqs[c].code = 200
       /\ reqs[c].first # EMPTY
       /\ store[reqs[c].rowIndex].status = LEAVE
       /\ CallPair(store[reqs[c].rowIndex]) = <<reqs[c].first, reqs[c].second>>

\* C12: a successful call-status update leaves the row with exactly the submitted
\* (callStatus, remarks), whatever the row held before (any value after any other,
\* the empty one included), and applied to a row that already holds the
\* submitted pair it leaves the whole sheet as it was.
C12_CallStatusIdempotent ==
    [][\A c \in Clients :
          (reqs[c].kind = "call-status" /\ WriteStep(c) /\ reqs'[c].code = 200) =>
             /\ Len(store') = Len(store)
             /\ CallPair(store'[reqs[c].rowIndex]) = <<reqs[c].first, reqs[c].second>>
             /\ CallPair(store[reqs[c].rowIndex]) = <<reqs[c].first, reqs[c].second>> =>
                   store' = store]_vars

\* a call status was set on a row and, by a later request, set back to empty
C12_Witness ==
    \E c, d \in Clients :
       /\ c # d
       /\ reqs[c].kind = "call-status" /\ reqs[c].pc = "done" /\ reqs[c].code = 200
       /\ reqs[d].kind = "call-status" /\ reqs[d].pc = "done" /\ reqs[d].code = 200
       /\ reqs[c].rowIndex = reqs[d].rowIndex
       /\ ~reqs[c].overlap /\ ~reqs[d].overlap
       /\ reqs[c].first # EMPTY
       /\ reqs[d].first = EMPTY
       /\ CallPair(store[reqs[d].rowIndex]) = <<EMPTY, EMPTY>>

\* C13: a register request on a row whose status is "Success" already is not
\* refused: its lookup goes on to the update (500 only if the read failed), and
\* its update, when it succeeds, replaces mobile and participated by the newly
\* submitted values; so of two registrations one after the other the row holds
\* the second's.
C13_ReRegisterOverwrites ==
    [][\A c \in Clients :
          reqs[c].kind = "register" =>
             /\ (/\ LookupStep(c)
                 /\ findIndex(store, reqs[c].zone, reqs[c].name) # 0
                 /\ store[findIndex(store, reqs[c].zone, reqs[c].name)].status = SUCCESS) =>
                   (reqs'[c].pc = "write" \/ reqs'[c].code = 500)
             /\ (/\ WriteStep(c)
                 /\ reqs'[c].code = 200
                 /\ store[reqs[c].rowIndex].status = SUCCESS) =>
                   Triple(store'[reqs[c].rowIndex]) = <<reqs[c].first, reqs[c].second, SUCCESS>>]_vars

\* two registrations of one identity, the second begun after the first was
\* answered, with different values: both succeeded and the row holds the second's
C13_Witness ==
    \E c, d \in Clients :
       /\ c # d
       /\ reqs[c].kind = "register" /\ reqs[c].pc = "done" /\ reqs[c].code = 200
       /\ reqs[d].kind = "register" /\ reqs[d].pc = "done" /\ reqs[d].code = 200
       /\ reqs[c].zone = reqs[d].zone /\ reqs[c].name = reqs[d].name
       /\ reqs[c].rowIndex = reqs[d].rowIndex
       /\ ~reqs[c].overlap /\ ~reqs[d].overlap
       /\ reqs[c].first # reqs[d].first
       /\ reqs[c].second # reqs[d].second
       /\ Triple(store[reqs[d].rowIndex]) = <<reqs[d].first, reqs[d].second, SUCCESS>>

\* the first row, in sheet order, of the identity (zone, name); 0 when there is none
FirstOf(zone, name) ==
    IF HasMatch(zone, name)
    THEN CHOOSE i \in 1..Len(store) :
            /\ SameIdentity(store[i], zone, name)
            /\ \A j \in 1..(i - 1) : ~SameIdentity(store[j], zone, name)
    ELSE 0

\* C21: a register or call-status request finds the first row, in sheet order,
\* whose zone and name equal the request's up to case and surrounding
\* whitespace, and its update changes no other row: a later row of the same
\* identity is never modified.
C21_FirstMatchOnly ==
    [][\A c \in Clients :
          reqs[c].kind \in {"register", "call-status"} =>
             /\ (LookupStep(c) /\ reqs'[c].pc = "write") =>
                   (reqs'[c].rowIndex = FirstOf(reqs[c].zone, reqs[c].name)
                    /\ reqs'[c].rowIndex # 0)
             /\ (WriteStep(c) /\ reqs'[c].code = 200) =>
                   \A j \in 1..Len(store) :
                      j # FirstOf(reqs[c].zone, reqs[c].name) => store'[j] = store[j]]_vars

\* a call status, asked for under a differently written zone, was set on the
\* first of two rows of one identity; the second row has not got it
C21_Witness ==
    \E c \in Clients :
       /\ reqs[c].kind = "call-status" /\ reqs[c].pc = "done" /\ reqs[c].code = 200
       /\ reqs[c].first # EMPTY
       /\ reqs[c].zone # store[reqs[c].rowIndex].zone
       /\ store[reqs[c].rowIndex].callStatus = reqs[c].first
       /\ \E j \in 1..Len(store) :
             /\ j > reqs[c].rowIndex
             /\ SameIdentity(store[j], reqs[c].zone, reqs[c].name)
             /\ store[j].callStatus # reqs[c].first

\* C22: a registration changes the mobile, participated and status cells of the
\* row it matched and nothing else: the row's zone, name, role flags, fallback
\* mobile, call status and call remarks stay as they were, and so does every
\* other row.
C22_RegisterFrame ==
    [][\A c \in Clients :
          (reqs[c].kind = "register" /\ WriteStep(c) /\ reqs'[c].code = 200) =>
             LET i == reqs[c].rowIndex
             IN /\ Len(store') = Len(store)
                /\ \A j \in 1..Len(store) : j # i => store'[j] = store[j]
                /\ store'[i].zone = store[i].zone
                /\ store'[i].name = store[i].name
                /\ store'[i].role = store[i].role
                /\ store'[i].executive = store[i].executive
                /\ store'[i].mobileH = store[i].mobileH
                /\ store'[i].callStatus = store[i].callStatus
                /\ store'[i].callRemarks = store[i].callRemarks]_vars

\* a row with a role flag, a fallback mobile and a call status was registered
\* and still has them
C22_Witness ==
    \E c, d \in Clients :
       /\ reqs[c].kind = "register" /\ reqs[c].pc = "done" /\ reqs[c].code = 200
       /\ reqs[d].kind = "call-status" /\ reqs[d].pc = "done" /\ reqs[d].code = 200
       /\ reqs[d].rowIndex = reqs[c].rowIndex
       /\ ~reqs[c].overlap
       /\ reqs[c].first # EMPTY
       /\ Triple(store[reqs[c].rowIndex]) = <<reqs[c].first, reqs[c].second, SUCCESS>>
       /\ store[reqs[c].rowIndex].role # EMPTY
       /\ store[reqs[c].rowIndex].mobileH # EMPTY
       /\ store[reqs[c].rowIndex].callStatus # EMPTY

\* C23: when one register request and one call-status request for the same row
\* are the only requests made, then however their reads and updates interleave,
\* once both are answered success the row has status "Success" with the
\* registered mobile and participated and also the submitted call status and
\* remarks.
C23_BothTakeEffect ==
    \A c, d \in Clients :
       (/\ issued = 2
        /\ reqs[c].kind = "register" /\ reqs[c].pc = "done" /\ reqs[c].code = 200
        /\ reqs[d].kind = "call-status" /\ reqs[d].pc = "done" /\ reqs[d].code = 200
        /\ reqs[c].rowIndex = reqs[d].rowIndex) =>
          /\ Triple(store[reqs[c].rowIndex]) = <<reqs[c].first, reqs[c].second, SUCCESS>>
          /\ CallPair(store[reqs[d].rowIndex]) = <<reqs[d].first, reqs[d].second>>

\* both requests had read before either wrote, and the row has both updates
C23_Witness ==
    \E c, d \in Clients :
       /\ issued = 2
       /\ reqs[c].kind = "register" /\ reqs[c].pc = "done" /\ reqs[c].code = 200
       /\ reqs[d].kind = "call-status" /\ reqs[d].pc = "done" /\ reqs[d].code = 200
       /\ reqs[c].rowIndex = reqs[d].rowIndex
       /\ (reqs[c].overlap \/ reqs[d].overlap)
       /\ reqs[c].first # EMPTY
       /\ reqs[d].first # EMPTY
       /\ Triple(store[reqs[c].rowIndex]) = <<reqs[c].first, reqs[c].second, SUCCESS>>
       /\ CallPair(store[reqs[d].rowIndex]) = <<reqs[d].first, reqs[d].second>>

(***************************************************************************)
(* Claims about the handlers together (SpecHandlers, SpecLogin)            *)
(***************************************************************************)
\* the rows GET /api/data is to list: status neither "Success" nor "Leave"
Unsettled == {i \in 1..Len(store) : trim(store[i].status) \notin {SUCCESS, LEAVE}}

\* the form's list is answered in this step
DataStep == view = NoView /\ view'.route = "data" /\ view'.code = 200

\* C14: GET /api/data answers one {mandalam, name} entry per row whose status is
\* neither "Success" nor "Leave", in sheet order, and nothing else; so a list
\* fetched after a successful registration has no entry for the row that was
\* registered, and none of its identity when that row is the only one of it.
C14_DataOffersUnregistered ==
    [][DataStep =>
          /\ Len(view'.body) = Cardinality(Unsettled)
          /\ \A i \in Unsettled :
                view'.body[Cardinality({j \in Unsettled : j <= i})] =
                   [mandalam |-> store[i].zone, name |-> store[i].name]
          /\ \A i \in 1..Len(store) :
                lastRegWrite[i] # NoWrite =>
                   /\ i \notin Unsettled
                   /\ (\A j \in 1..Len(store) :
                          j # i => ~SameIdentity(store[j], store[i].zone, store[i].name)) =>
                         \A k \in 1..Len(view'.body) :
                            ~SameIdentity(store[i], view'.body[k].mandalam,
                                          view'.body[k].name)]_vars

\* the list was fetched after a registration of A/X went through: of the four
\* rows only the second is still offered
C14_Witness ==
    /\ view.route = "data"
    /\ view.code = 200
    /\ Len(store) = 4
    /\ \E c \in Clients :
          /\ reqs[c].kind = "register" /\ reqs[c].pc = "done" /\ reqs[c].code = 200
          /\ reqs[c].rowIndex = 1
    /\ lastRegWrite[1] # NoWrite
    /\ view.body = << [mandalam |-> store[2].zone, name |-> store[2].name] >>

IsMaster(username, password) == username = ADMIN_USERNAME /\ password = ADMIN_PASSWORD

InAdminSheet(username, password) ==
    \E i \in 1..Len(admins) :
       /\ trim(admins[i].username) = username
       /\ trim(admins[i].password) = password

\* C15: the login answers 200 with success and a token exactly when the
\* credentials are the master ones (role super-admin) or, the admin sheet having
\* been read, equal the trimmed username and password of one of its rows (role
\* admin); every other login is answered 401 without a token.
C15_LoginIssuesToken ==
    view.route = "login" =>
       LET u == view.args.username
           p == view.args.password
           granted == IsMaster(u, p) \/ (~view.fault /\ InAdminSheet(u, p))
       IN /\ (view.code = 200 /\ view.body.success /\ view.body.token # NoToken) <=> granted
          /\ IsMaster(u, p) =>
                (view.body.role = "super-admin" /\ view.body.token = generateToken(u, "super-admin"))
          /\ (granted /\ ~IsMaster(u, p)) =>
                (view.body.role = "admin" /\ view.body.token = generateToken(u, "admin"))
          /\ ~granted =>
                (view.code = 401 /\ ~view.body.success /\ view.body.token = NoToken)

\* an admin logged in whose sheet row matches only once its cells are trimmed
C15_Witness ==
    /\ view.route = "login"
    /\ view.code = 200
    /\ view.body.role = "admin"
    /\ view.body.token # NoToken
    /\ \A i \in 1..Len(admins) : admins[i].username # view.args.username

ReadOnlyRoutes == {"data", "stats", "zones", "members", "role-stats"}

\* a failed row-store call of a POST request ends it with 500: a failed lookup
\* read after that one read and without any update, a failed update after the
\* one read and the one update
PostFaults ==
    \A c \in Clients :
       (reqs[c].kind \in {"register", "call-status"} /\ reqs[c].fault) =>
          /\ reqs[c].pc = "done"
          /\ reqs[c].code = 500
          /\ reqs[c].reads = 1
          /\ reqs[c].writes = (IF reqs[c].rowIndex = 0 THEN 0 ELSE 1)

\* a failed read of a GET route ends it with 500
GetFaults == (view.route \in ReadOnlyRoutes /\ view.fault) => view.code = 500

\* C16 as written: in every handler, the login included, a failed row-store
\* call is answered 500; nothing is retried and no update follows a failed read.
C16_FaultIs500 ==
    /\ PostFaults
    /\ GetFaults
    /\ (view.route = "login" /\ view.fault) => view.code = 500

\* C16, amended: in the register, call-status and read-only handlers a failed
\* row-store call is answered 500, nothing is retried and no update follows a
\* failed read; in the login a failed read of the admin sheet is not answered
\* 500 but 401 "Invalid credentials", without a token, even for credentials
\* the sheet holds.
C16_FaultIs500ExceptLogin ==
    /\ PostFaults
    /\ GetFaults
    /\ (view.route = "login" /\ view.fault) =>
          (view.code = 401 /\ view.body.token = NoToken)

\* the admin sheet could not be read and an admin it holds was answered 401
C16_Witness ==
    /\ view.route = "login"
    /\ view.fault
    /\ view.code = 401
    /\ InAdminSheet(view.args.username, view.args.password)

\* the store calls of the POST requests: one read, then at most one update, the
\* update only for a row the read returned
PostCalls ==
    \A c \in Clients :
       reqs[c].kind \in {"register", "call-status"} =>
          /\ reqs[c].pc = "lookup" => (reqs[c].reads = 0 /\ reqs[c].writes = 0)
          /\ reqs[c].pc = "write" =>
                (reqs[c].reads = 1 /\ reqs[c].writes = 0 /\ reqs[c].rowIndex # 0)
          /\ reqs[c].pc = "done" =>
                /\ reqs[c].reads = 1
                /\ reqs[c].writes \in {0, 1}
                /\ reqs[c].writes = 1 => reqs[c].rowIndex \in 1..Len(store)
                /\ reqs[c].code = 404 => reqs[c].writes = 0

\* only the update of a POST request changes the sheet
OnlyUpdatesWrite == store' # store => \E c \in Clients : WriteStep(c) /\ reqs'[c].writes = 1

\* a read-only route answers in this step
ReadOnlyStep == view' # view /\ view'.route \in ReadOnlyRoutes

\* C17 as written: a register or call-status request makes one lookup read and
\* then at most one update, the update only after the read returned a matching
\* row; every read-only request makes one read and no update.
C17_OneReadOneWrite ==
    [][/\ PostCalls'
       /\ OnlyUpdatesWrite
       /\ ReadOnlyStep => (view'.read /\ store' = store)]_vars

\* C17, amended: the POST requests as written; a read-only request makes one
\* read and no update unless it is refused for its token (401), and then it
\* makes no store call at all.
C17_OneReadUnlessRefused ==
    [][/\ PostCalls'
       /\ OnlyUpdatesWrite
       /\ ReadOnlyStep => ((view'.read <=> view'.code # 401) /\ store' = store)]_vars

\* a dashboard route refused a request for its token without reading the sheet
C17_Witness ==
    /\ view.route \in DashboardRoutes
    /\ view.code = 401
    /\ ~view.read

(***************************************************************************)
(* Claims about the dashboard (SpecReport, SpecUi)                         *)
(***************************************************************************)
\* the zone lines of the role report message shown
ReportLines ==
    LET message == generateRoleReportWhatsAppMessage(ui.roleStats, ui.roleReportFilter)
    IN IF Len(message) = 0 THEN <<>> ELSE SubSeq(message, 2, Len(message) - 1)

\* the entry of the role-stats input a line is about, and its place there
InputIndex(name) == CHOOSE i \in 1..Len(ui.roleStats) : ui.roleStats[i].name = name

\* the roles a filter value is about
RolesOf(filter) == IF filter = ALL_ROLES THEN {SECRETARIAT, EXECUTIVE} ELSE {filter}

\* C18: for each value of the role filter (All, Secretariat, Executive), the
\* zones the role report message lists for a role come by descending completion
\* percentage of that role, and zones of equal percentage in the order the
\* role-stats input has them.
C18_ReportOrdered ==
    ui.view = "roleReport" =>
       \A role \in RolesOf(ui.roleReportFilter) :
          \A i, j \in 1..Len(ReportLines) :
             LET a == ui.roleStats[InputIndex(ReportLines[i].name)]
                 b == ui.roleStats[InputIndex(ReportLines[j].name)]
             IN (i < j /\ isIncomplete(a, role) /\ isIncomplete(b, role)) =>
                   \/ percentageOf(a, role) > percentageOf(b, role)
                   \/ /\ percentageOf(a, role) = percentageOf(b, role)
                      /\ InputIndex(ReportLines[i].name) < InputIndex(ReportLines[j].name)

\* C19: the unregistered-members message is empty while no zone is selected,
\* and the button that copies it is rendered only while a zone is selected and
\* the member list held has an unregistered member.
C19_MessageNeedsZone ==
    ui.view # "unmounted" =>
       /\ ui.selectedZone = ALL_ZONES =>
             (generateWhatsAppMessage(ui) = <<>> /\ copyWhatsAppMessage(ui) = <<>>)
       /\ copyOffered(ui) =>
             /\ ui.selectedZone # ALL_ZONES
             /\ \E i \in 1..Len(ui.members) : ~ui.members[i].registered
             /\ \E k \in 1..Len(generateWhatsAppMessage(ui)) :
                   generateWhatsAppMessage(ui)[k].line = "member"

\* the list held has unregistered members and no zone is selected (no message,
\* no button)
C19_Witness ==
    /\ ui.view = "dashboard"
    /\ ~ui.loading
    /\ ui.selectedZone = ALL_ZONES
    /\ Len(ui.zones) > 0
    /\ \E i \in 1..Len(ui.members) : ~ui.members[i].registered

\* C20: whenever the zone filter is "all" the role filter is "All", and every
\* members request sent with a role other than "All" names a zone.
C20_RoleNeedsZone ==
    ui.view # "unmounted" =>
       /\ ui.selectedZone = ALL_ZONES => ui.selectedRole = ALL_ROLES
       /\ \A q \in ui.inflight : q.role # ALL_ROLES => q.zone # ALL_ZONES

\* the filters were reset while a members request with a role was in flight
C20_Witness ==
    /\ ui.view # "unmounted"
    /\ ui.selectedZone = ALL_ZONES
    /\ ui.selectedRole = ALL_ROLES
    /\ \E q \in ui.inflight : q.role # ALL_ROLES /\ q.zone # ALL_ZONES

\* C26: once every members request in flight has been answered (none of them
\* failing), the member list displayed is the listing for the zone and role
\* selected now, in whatever order the answers arrived.
C26_ListMatchesSelection ==
    (ui.view # "unmounted" /\ ui.inflight = {} /\ ~ui.lost) =>
       ui.members = membersBody(store, ui.selectedZone, ui.selectedRole, EMPTY)

\* the listed members a call-status request was made for
Targets(members, r) ==
    {i \in 1..Len(members) : members[i].zone = r.zone /\ members[i].name = r.name}

SessionConsistent ==
    /\ (ui.storedToken # NoToken) <=> (ui.storedUser # NoUser)
    /\ ~ui.isLoading => (ui.token = ui.storedToken /\ ui.user = ui.storedUser)
    /\ isAuthenticated(ui) <=> ui.token # NoToken
    /\ isAuthenticated(ui) <=> ui.storedToken # NoToken /\ ~ui.isLoading

\* a login call has thrown in this step
LoginThrew == ui'.logins # ui.logins /\ ui'.logins \subseteq ui.logins /\ ui'.failed

\* C28: starting from empty browser storage, after any logins (accepted,
\* refused or lost) and logouts the stored token and user are both present or
\* both absent, the token in memory is the stored one, isAuthenticated holds
\* exactly when the token is present, and a login that fails changes neither
\* the state nor the storage.
C28_SessionInStep ==
    /\ []SessionConsistent
    /\ [][LoginThrew =>
             /\ ui'.token = ui.token
             /\ ui'.user = ui.user
             /\ ui'.storedToken = ui.storedToken
             /\ ui'.storedUser = ui.storedUser]_vars

\* a session is open, and the login answered last, a second one still in
\* flight when the first was accepted, was refused
C28_Witness ==
    /\ ~ui.isLoading
    /\ ui.failed
    /\ isAuthenticated(ui)
    /\ ui.storedToken = ui.token
    /\ ui.storedUser = ui.user
    /\ ui.user # NoUser

\* C29: every dashboard request carries a token; while the session is loading
\* the Dashboard is not mounted, nothing is fetched and nothing is redirected;
\* once loading is over without a token the page is not left on /admin: it has
\* been navigated to /login and the Dashboard has fetched nothing.
C29_NoRequestWithoutToken ==
    /\ \A q \in ui.sent : q.token # NoToken
    /\ ui.isLoading => (ui.sent = {} /\ ~ui.redirected /\ ~ui.dashboard)
    /\ (~ui.isLoading /\ ui.token = NoToken) =>
          (ui.path # "/admin" /\ ~ui.dashboard)
    /\ ui.dashboard => (ui.path = "/admin" /\ ui.token # NoToken)

\* /admin was opened without a session: loading is over, nothing was fetched
\* and the page is the login page
C29_Witness ==
    /\ ~ui.isLoading
    /\ ui.token = NoToken
    /\ ui.redirected
    /\ ui.path = "/login"
    /\ ui.sent = {}

(***************************************************************************)
(* Claims about the read-only routes (SpecViews)                           *)
(***************************************************************************)
OnLeave(row) == trim(row.status) = LEAVE

RowIdx == 1..Len(store)

\* rows of the sheet that are not on Leave and satisfy Test
NumActive(Test(_)) == Cardinality({i \in RowIdx : ~OnLeave(store[i]) /\ Test(store[i])})

Answered(route) == view.route = route /\ view.code = 200

\* C4: a row on Leave is counted or listed by no read-only route, whatever the
\* filters: overall stats, zone stats and role stats count only rows not on Leave,
\* every listed member or offered identity comes from a row not on Leave, and a
\* zone appears in zone stats or role stats only if it has a row not on Leave.
C4_LeaveExcluded ==
    /\ Answered("stats") =>
          LET any(r) == TRUE
              reg(r) == trim(r.status) = SUCCESS
          IN /\ view.body.total = NumActive(any)
             /\ view.body.registered = NumActive(reg)
    /\ Answered("zones") =>
          \A k \in 1..Len(view.body) :
             LET inZone(r) == trim(r.zone) = view.body[k].name
             IN /\ view.body[k].total = NumActive(inZone)
                /\ NumActive(inZone) > 0
    /\ Answered("role-stats") =>
          \A k \in 1..Len(view.body) :
             LET inZone(r) == trim(r.zone) = view.body[k].name
                 sec(r) == inZone(r) /\ trim(r.role) = SECRETARIAT
                 exe(r) == inZone(r) /\ trim(r.executive) = EXECUTIVE
             IN /\ NumActive(inZone) > 0
                /\ view.body[k].secretariat.total = NumActive(sec)
                /\ view.body[k].executive.total = NumActive(exe)
    /\ Answered("members") =>
          LET any(r) == TRUE
          IN /\ Len(view.body) <= NumActive(any)
             /\ \A k \in 1..Len(view.body) :
                   /\ view.body[k].status # LEAVE
                   /\ \E i \in RowIdx : ~OnLeave(store[i]) /\ toMember(store[i]) = view.body[k]
    /\ Answered("data") =>
          LET open(r) == trim(r.status) # SUCCESS
          IN /\ Len(view.body) = NumActive(open)
             /\ \A k \in 1..Len(view.body) :
                   \E i \in RowIdx : /\ ~OnLeave(store[i])
                                     /\ store[i].zone = view.body[k].mandalam
                                     /\ store[i].name = view.body[k].name

\* a sheet with a zone whose rows are all on Leave, next to active rows, was read
C4_Witness ==
    /\ view.code = 200
    /\ view.route \in {"zones", "role-stats", "members"}
    /\ Len(view.body) > 0
    /\ \E i \in RowIdx :
          /\ OnLeave(store[i])
          /\ \A j \in RowIdx : trim(store[j].zone) = trim(store[i].zone) => OnLeave(store[j])

\* C9: registered + notRegistered = total in every zone entry, in the overall
\* stats and in the dashboard's counts over the fetched member list.
C9_CountsPartition ==
    /\ Answered("stats") =>
          view.body.registered + view.body.notRegistered = view.body.total
    /\ Answered("zones") =>
          \A k \in 1..Len(view.body) :
             view.body[k].registered + view.body[k].notRegistered = view.body[k].total
    /\ Answered("members") =>
          LET c == filteredCounts(view.body)
          IN c.filteredRegistered + c.filteredNotRegistered = c.filteredTotal

\* a zone entry with both registered and unregistered members
C9_Witness ==
    /\ Answered("zones")
    /\ \E k \in 1..Len(view.body) :
          view.body[k].registered > 0 /\ view.body[k].notRegistered > 0

\* C10: in role stats, isComplete holds exactly when total > 0 and
\* registered = total; with total = 0 the percentage is 0 and isComplete is false.
C10_IsComplete ==
    Answered("role-stats") =>
       \A k \in 1..Len(view.body) :
          \A rs \in {view.body[k].secretariat, view.body[k].executive} :
             /\ rs.isComplete <=> (rs.total > 0 /\ rs.registered = rs.total)
             /\ rs.total = 0 => (rs.percentage = 0 /\ ~rs.isComplete)

\* a zone complete in one role and without members in the other
C10_Witness ==
    /\ Answered("role-stats")
    /\ \E k \in 1..Len(view.body) :
          /\ view.body[k].executive.isComplete
          /\ view.body[k].secretariat.total = 0

\* the sums of total and of registered over the entries of a zone-stats body
ZoneSums(zones) ==
    LET T[k \in 0..Len(zones)] == IF k = 0 THEN 0 ELSE T[k - 1] + zones[k].total
        R[k \in 0..Len(zones)] == IF k = 0 THEN 0 ELSE R[k - 1] + zones[k].registered
    IN [total |-> T[Len(zones)], registered |-> R[Len(zones)]]

\* rows not on Leave whose zone cell is empty once trimmed
NoZoneRows == {i \in RowIdx : ~OnLeave(store[i]) /\ trim(store[i].zone) = EMPTY}

\* C24: on one snapshot of the sheet, the totals of the zone entries add up to
\* the overall total minus the rows not on Leave whose zone cell is empty (after
\* trimming, as every cell is read), and the registered counts add up to the
\* overall registered count minus those of these rows that are registered.
C24_ZonesSumToStats ==
    LET noZone == Cardinality(NoZoneRows)
        noZoneReg == Cardinality({i \in NoZoneRows : trim(store[i].status) = SUCCESS})
    IN /\ Answered("zones") =>
             /\ ZoneSums(view.body).total = statsBody(store).total - noZone
             /\ ZoneSums(view.body).registered = statsBody(store).registered - noZoneReg
       /\ Answered("stats") =>
             /\ ZoneSums(zonesBody(store)).total = view.body.total - noZone
             /\ ZoneSums(zonesBody(store)).registered = view.body.registered - noZoneReg

\* zone stats answered for a sheet with a registered row without a zone next to
\* a row with one: the zone entries add up to less than the overall total
C24_Witness ==
    /\ Answered("zones")
    /\ \E i \in NoZoneRows : trim(store[i].status) = SUCCESS
    /\ ZoneSums(view.body).total > 0
    /\ ZoneSums(view.body).total < statsBody(store).total
    /\ ZoneSums(view.body).registered < statsBody(store).registered

\* C25: on one snapshot of the sheet, for every entry z of zone stats the member
\* listing asked for with zone = z.name, no role filter and no status filter
\* returns exactly z.total members, z.registered of them registered.
C25_MembersMatchZone ==
    (Answered("members") /\ view.args.role = ALL_ROLES /\ view.args.status = EMPTY) =>
       \A k \in 1..Len(zonesBody(store)) :
          LET z == zonesBody(store)[k]
          IN z.name = view.args.zone =>
                /\ Len(view.body) = z.total
                /\ Len(registeredMembers(view.body)) = z.registered
====
